---- MODULE Spec2Model ----
(***************************************************************************)
(* Model of the training-job orchestration of OllaForge:                   *)
(*   - TrainingJob / TrainingService  (api/services/training_service.py)   *)
(*   - the HTTP handlers start / cancel (api/routers/training.py)          *)
(*                                                                         *)
(* Scheduling.  The HTTP handlers are `async def` functions without an     *)
(* await between their first and last statement, so the event loop runs    *)
(* one handler at a time (variable req).  Every admitted job has its own   *)
(* worker thread (_run_training); worker steps interleave freely with the  *)
(* steps of the handler in flight and with each other.                     *)
(***************************************************************************)
EXTENDS Naturals, Sequences, FiniteSets, TLC

\* ---------------------------------------------------------------------------
\* Bounds
\* ---------------------------------------------------------------------------
MaxJobs == 2
MaxSteps == 1
MaxLines == 2

\* ---------------------------------------------------------------------------
\* Program constants
\* ---------------------------------------------------------------------------
Projects == {"p1"}

TASK_IDS ==
  << "detect_device", "import_libraries", "load_model", "setup_lora", "tokenize",
     "train", "merge_lora", "convert_gguf", "create_modelfile" >>

NumTasks == Len(TASK_IDS)

ACTIVE_STATUSES_m ==
  << "starting", "loading_data", "loading_model", "training", "exporting" >>

\* TrainingService.ACTIVE_STATUSES
ACTIVE_STATUSES ==
  << "starting", "loading_data", "loading_model", "training", "exporting",
     "converting" >>

TRAINING_ALREADY_RUNNING == "ERR_TRAINING_4001"
TRAINING_NOT_RUNNING == "ERR_TRAINING_4002"
TRAINING_NO_DATA_FILES == "ERR_TRAINING_4003"
TRAINING_DATA_FILE_NOT_FOUND == "ERR_TRAINING_4004"
TRAINING_MODEL_LOAD_FAILED == "ERR_TRAINING_4005"
TRAINING_FAILED == "ERR_TRAINING_4006"
TRAINING_EXPORT_FAILED == "ERR_TRAINING_4007"
TRAINING_CANCELLED == "ERR_TRAINING_4008"
TRAINING_LLAMA_CPP_NOT_FOUND == "ERR_TRAINING_4009"

\* The request bodies a client sends to POST /train (data_files).
RequestFiles == { << >>, << "a.jsonl" >>, << "missing.jsonl" >> }

\* The file names of the model.
FileNames == { "a.jsonl", "b.jsonl", "missing.jsonl" }

\* The lines a data file is made of.
BlankLine == ""
SpacesLine == "   "
BadJsonLine == "{not json"
ListLine == "[1, 2]"
NoOutputLine == "{\"instruction\": \"q\"}"
IntFieldLine == "{\"instruction\": 1, \"output\": \"a\"}"
ValidLine == "{\"instruction\": \"q\", \"output\": \"a\"}"

LineTexts == { BlankLine, SpacesLine, BadJsonLine, ListLine, NoOutputLine, IntFieldLine, ValidLine }

AbsentFile == [ exists |-> FALSE, lines |-> << >> ]

FileOf(lines) == [ exists |-> TRUE, lines |-> lines ]

\* One valid record and one line of invalid JSON in a.jsonl, no other file.
DefaultData ==
  [ f \in FileNames |-> IF f = "a.jsonl" THEN FileOf(<< ValidLine, BadJsonLine >>)
                        ELSE AbsentFile ]

None == "None"

\* ---------------------------------------------------------------------------
\* State
\* ---------------------------------------------------------------------------
VARIABLES
  registry,   \* TrainingService._jobs : project_slug -> job (0 = no entry)
  njobs,      \* number of TrainingJob objects constructed so far
  job,        \* the TrainingJob objects, by construction order
  cache,      \* project -> does <project>/.cache/training exist
  req,        \* the HTTP handler in flight
  data,       \* <project>/data : file name -> its lines
  held,       \* history: the progress values every job has held so far
  ws,         \* the websocket handler (push adapter) of the project
  eff         \* a call of one of TrainingJob.get_effective_*_config

vars == << registry, njobs, job, cache, req, data, held, ws, eff >>

\* The project's data directory: the files that exist in it.
DataDir == { f \in FileNames : data[f].exists }

JobIds == 1 .. MaxJobs

\* The jobs constructed so far.
Created == 1 .. njobs

\* A slot of `job` that holds no object yet.
NoJob ==
  [ project_slug |-> None, data_files |-> << >>, status |-> None,
    error_code |-> None, tasks |-> << >>, error_count |-> << >>,
    file_statuses |-> << >>,
    cancel_requested |-> FALSE, current_step |-> 0, should_stop |-> FALSE,
    pc |-> "none", stage |-> 0, idx |-> 0, exc |-> None,
    line |-> 0, loaded_in_file |-> 0, skipped_in_file |-> 0, all_texts |-> 0 ]

\* TrainingTask.error_count of the nine tasks of a new job.
TaskErrorCounts == [ i \in 1 .. NumTasks |-> 0 ]

\* DataFileStatus(filename=filename): status pending, no rows counted.
DataFileStatus(filename) ==
  [ filename |-> filename, status |-> "pending", rows_loaded |-> 0, rows_skipped |-> 0 ]

\* TrainingJob.__init__.  tasks and error_count are the status and the
\* error_count of the TrainingTask objects; file_statuses is the dict keyed by
\* file name; stage, idx, line, loaded_in_file, skipped_in_file, all_texts
\* (its length) and exc are the locals of the worker.
TrainingJob(slug, files) ==
  [ project_slug |-> slug, data_files |-> files, status |-> "idle",
    error_code |-> None,
    tasks |-> [ i \in 1 .. NumTasks |-> "pending" ],
    error_count |-> TaskErrorCounts,
    file_statuses |-> [ f \in { files[k] : k \in 1 .. Len(files) } |-> DataFileStatus(f) ],
    cancel_requested |-> FALSE, current_step |-> 0, should_stop |-> FALSE,
    pc |-> "unborn", stage |-> 0, idx |-> 0, exc |-> None,
    line |-> 0, loaded_in_file |-> 0, skipped_in_file |-> 0, all_texts |-> 0 ]

\* TrainingJob.set_file_status
set_file_status(r, filename, status, rows_loaded, rows_skipped) ==
  IF filename \in DOMAIN r.file_statuses
    THEN [ r EXCEPT !.file_statuses[filename] =
             [ filename |-> filename, status |-> status,
               rows_loaded |-> rows_loaded, rows_skipped |-> rows_skipped ] ]
    ELSE r

\* TrainingJob.increment_task_error_count
increment_task_error_count(r, i) == [ r EXCEPT !.error_count[i] = @ + 1 ]

\* The data_files that are keys of file_statuses, in the order of data_files.
RECURSIVE KnownFiles(_, _)
KnownFiles(r, k) ==
  IF k > Len(r.data_files) THEN << >>
  ELSE IF r.data_files[k] \in DOMAIN r.file_statuses
    THEN << r.data_files[k] >> \o KnownFiles(r, k + 1)
    ELSE KnownFiles(r, k + 1)

RECURSIVE DictValues_m(_, _)
DictValues_m(r, k) ==
  IF k > Len(r.data_files) THEN << >>
  ELSE IF \E i \in 1 .. k - 1 : r.data_files[i] = r.data_files[k]
    THEN DictValues_m(r, k + 1)
    ELSE << r.file_statuses[r.data_files[k]] >> \o DictValues_m(r, k + 1)

get_file_statuses_list_m(r) == DictValues_m(r, 1)

\* TrainingJob.get_file_statuses_list
get_file_statuses_list(r) ==
  LET fs == KnownFiles(r, 1)
  IN  [ k \in 1 .. Len(fs) |-> r.file_statuses[fs[k]] ]

\* TrainingJob.get_tasks_list
get_tasks_list(r) ==
  [ i \in 1 .. NumTasks |-> [ status |-> r.tasks[i], error_count |-> r.error_count[i] ] ]

\* The values TrainingJob.get_progress reports, all at one instant.
Projection(r) ==
  [ status |-> r.status, current_step |-> r.current_step, error_code |-> r.error_code,
    tasks |-> get_tasks_list(r), file_statuses |-> get_file_statuses_list(r) ]

\* The history of job j once its object is r.  It is kept in the
\* specifications that judge the snapshots an observer is sent.
Record(j, r) ==
  IF ~held.recording THEN held
  ELSE [ held EXCEPT !.values[j] = @ \cup { Projection(r) } ]

\* --- the push adapter's state ------------------------------------------------
NoProgress == [ status |-> None, current_step |-> 0, error_code |-> None ]

NoMsg ==
  [ type |-> "none", job_id |-> 0, status |-> None, error_code |-> None,
    can_start |-> None,
    current_step |-> 0, tasks |-> << >>, file_statuses |-> << >> ]

\* (can_start is "True", "False", or None in a message without the key.)
\* job: the object get_job returned; progress: the scalars get_progress read;
\* msg: the message last handed to send_json in this iteration.
WsState(pc) ==
  [ pc |-> pc, job |-> 0, progress |-> NoProgress, msg |-> NoMsg ]

NoReq == [ op |-> "none", pc |-> "idle", slug |-> None, data_files |-> << >>,
           job |-> 0, code |-> 0, error_code |-> None, status |-> None,
           ret |-> None ]

NoHistory(recording) == [ recording |-> recording, values |-> [ j \in JobIds |-> { } ] ]

\* ---------------------------------------------------------------------------
\* Configuration: api/constants/training_defaults.py, api/models/project.py,
\* TrainingJob.get_effective_*_config.  Every value is written as its text.
\* ---------------------------------------------------------------------------
\* api/constants/training_defaults.py: the DEFAULT_* constants.
training_defaults ==
  [ DEFAULT_MAX_LENGTH |-> "512",
    DEFAULT_EPOCHS |-> "3",
    DEFAULT_BATCH_SIZE_CUDA |-> "4",
    DEFAULT_BATCH_SIZE_CPU |-> "1",
    DEFAULT_GRADIENT_ACCUMULATION |-> "4",
    DEFAULT_LEARNING_RATE_CUDA |-> "2e-4",
    DEFAULT_LEARNING_RATE_CPU |-> "3e-4",
    DEFAULT_WARMUP_RATIO_CUDA |-> "0.1",
    DEFAULT_WARMUP_RATIO_CPU |-> "0.03",
    DEFAULT_OPTIM_CUDA |-> "paged_adamw_8bit",
    DEFAULT_OPTIM_CPU |-> "adamw_torch",
    DEFAULT_WEIGHT_DECAY |-> "0.01",
    DEFAULT_MAX_GRAD_NORM |-> "1.0",
    DEFAULT_LR_SCHEDULER_TYPE |-> "linear",
    DEFAULT_NEFTUNE_NOISE_ALPHA |-> "0",
    DEFAULT_SEED |-> "42",
    DEFAULT_LOGGING_STEPS_CUDA |-> "10",
    DEFAULT_LOGGING_STEPS_CPU |-> "5",
    DEFAULT_SAVE_STRATEGY |-> "epoch",
    DEFAULT_LORA_R |-> "32",
    DEFAULT_LORA_ALPHA |-> "64",
    DEFAULT_LORA_DROPOUT |-> "0.05",
    DEFAULT_LORA_TARGET_MODULES |-> "['q_proj', 'k_proj', 'v_proj', 'o_proj', 'gate_proj', 'up_proj', 'down_proj']",
    DEFAULT_LORA_BIAS |-> "none",
    DEFAULT_USE_RSLORA |-> "False",
    DEFAULT_USE_DORA |-> "False",
    DEFAULT_LOAD_IN_4BIT |-> "True",
    DEFAULT_BNB_4BIT_QUANT_TYPE |-> "nf4",
    DEFAULT_BNB_4BIT_USE_DOUBLE_QUANT |-> "True",
    DEFAULT_BNB_4BIT_COMPUTE_DTYPE |-> "float16",
    DEFAULT_OUTPUT_QUANTIZATION |-> "q8_0",
    DEFAULT_TEMPERATURE |-> "0.7",
    DEFAULT_TOP_P |-> "0.9",
    DEFAULT_TOP_K |-> "40",
    DEFAULT_STOP |-> "['### Question:']",
    DEFAULT_SYSTEM |-> "You are a helpful assistant.",
    DEFAULT_REPEAT_PENALTY |-> "1.1",
    DEFAULT_REPEAT_LAST_N |-> "64",
    DEFAULT_NUM_CTX |-> "2048" ]

\* The fields of TrainingConfig, ProjectLoraConfig, QuantizationConfig and
\* ModelfileConfig.
ConfigFields(category) ==
  CASE category = "training" ->
         { "num_train_epochs", "per_device_train_batch_size",
           "gradient_accumulation_steps", "learning_rate", "warmup_ratio",
           "max_length", "fp16", "optim", "weight_decay", "max_grad_norm",
           "lr_scheduler_type", "neftune_noise_alpha", "seed", "bf16",
           "logging_steps", "save_strategy" }
    [] category = "lora" ->
         { "r", "lora_alpha", "lora_dropout", "target_modules", "bias",
           "use_rslora", "use_dora", "modules_to_save" }
    [] category = "quantization" ->
         { "load_in_4bit", "bnb_4bit_quant_type", "bnb_4bit_use_double_quant",
           "bnb_4bit_compute_dtype", "output_quantization" }
    [] OTHER ->
         { "temperature", "top_p", "top_k", "stop", "system", "repeat_penalty",
           "repeat_last_n", "num_ctx" }

ConfigCategories == { "training", "lora", "quantization", "modelfile" }

\* Values the Field constraints of a parameter accept (ge, gt, le,
\* max_length), the falsy ones among them included.
ValidOverrides(p) ==
  CASE p = "num_train_epochs" -> { "1", "5" }
    [] p = "per_device_train_batch_size" -> { "2" }
    [] p = "gradient_accumulation_steps" -> { "1" }
    [] p = "learning_rate" -> { "1e-5" }
    [] p = "warmup_ratio" -> { "0", "0.5" }
    [] p = "max_length" -> { "128" }
    [] p \in { "fp16", "bf16", "use_rslora", "use_dora", "load_in_4bit",
               "bnb_4bit_use_double_quant" } -> { "True", "False" }
    [] p = "optim" -> { "", "sgd" }
    [] p = "weight_decay" -> { "0.0", "0.1" }
    [] p = "max_grad_norm" -> { "0.5" }
    [] p = "lr_scheduler_type" -> { "cosine" }
    [] p = "neftune_noise_alpha" -> { "0", "5" }
    [] p = "seed" -> { "0", "7" }
    [] p = "logging_steps" -> { "1" }
    [] p = "save_strategy" -> { "no" }
    [] p = "r" -> { "4" }
    [] p = "lora_alpha" -> { "8" }
    [] p = "lora_dropout" -> { "0", "0.1" }
    [] p \in { "target_modules", "modules_to_save" } -> { "[]", "['lm_head']" }
    [] p = "bias" -> { "all" }
    [] p = "bnb_4bit_quant_type" -> { "fp4" }
    [] p = "bnb_4bit_compute_dtype" -> { "bfloat16" }
    [] p = "output_quantization" -> { "f16" }
    [] p \in { "temperature", "top_p" } -> { "0.0", "0.5" }
    [] p = "top_k" -> { "1" }
    [] p = "stop" -> { "[]", "['###']" }
    [] p = "system" -> { "", "Be brief." }
    [] p = "repeat_penalty" -> { "1.0" }
    [] p = "repeat_last_n" -> { "0", "32" }
    [] OTHER -> { "0", "4096" }

\* bool(v) of Python for the values above.
Truthy(v) == v \notin { None, "0", "0.0", "False", "[]", "" }

\* job.<category>_config is None.
NoConfig == [ present |-> FALSE, fields |-> << >> ]

\* A config object whose fields are all None.
EmptyConfig(category) ==
  [ present |-> TRUE, fields |-> [ p \in ConfigFields(category) |-> None ] ]

\* config.<p> if config and config.<p> is not None else d
OrDefault(config, p, d) ==
  IF config.present /\ config.fields[p] # None THEN config.fields[p] ELSE d

\* config.<p> if config and config.<p> else d
IfTruthy(config, p, d) ==
  IF config.present /\ Truthy(config.fields[p]) THEN config.fields[p] ELSE d

PyBool(b) == IF b THEN "True" ELSE "False"

\* TrainingJob.get_effective_training_config
get_effective_training_config(config, is_cuda) ==
  [ num_train_epochs |-> OrDefault(config, "num_train_epochs", training_defaults.DEFAULT_EPOCHS),
    per_device_train_batch_size |->
      OrDefault(config, "per_device_train_batch_size",
                IF is_cuda THEN training_defaults.DEFAULT_BATCH_SIZE_CUDA ELSE training_defaults.DEFAULT_BATCH_SIZE_CPU),
    gradient_accumulation_steps |->
      OrDefault(config, "gradient_accumulation_steps", training_defaults.DEFAULT_GRADIENT_ACCUMULATION),
    learning_rate |->
      OrDefault(config, "learning_rate",
                IF is_cuda THEN training_defaults.DEFAULT_LEARNING_RATE_CUDA ELSE training_defaults.DEFAULT_LEARNING_RATE_CPU),
    warmup_ratio |->
      OrDefault(config, "warmup_ratio",
                IF is_cuda THEN training_defaults.DEFAULT_WARMUP_RATIO_CUDA ELSE training_defaults.DEFAULT_WARMUP_RATIO_CPU),
    max_length |-> OrDefault(config, "max_length", training_defaults.DEFAULT_MAX_LENGTH),
    fp16 |-> OrDefault(config, "fp16", PyBool(is_cuda)),
    optim |-> OrDefault(config, "optim",
                        IF is_cuda THEN training_defaults.DEFAULT_OPTIM_CUDA ELSE training_defaults.DEFAULT_OPTIM_CPU),
    weight_decay |-> OrDefault(config, "weight_decay", training_defaults.DEFAULT_WEIGHT_DECAY),
    max_grad_norm |-> OrDefault(config, "max_grad_norm", training_defaults.DEFAULT_MAX_GRAD_NORM),
    lr_scheduler_type |->
      OrDefault(config, "lr_scheduler_type", training_defaults.DEFAULT_LR_SCHEDULER_TYPE),
    neftune_noise_alpha |->
      OrDefault(config, "neftune_noise_alpha", training_defaults.DEFAULT_NEFTUNE_NOISE_ALPHA),
    seed |-> OrDefault(config, "seed", training_defaults.DEFAULT_SEED),
    bf16 |-> OrDefault(config, "bf16", "False"),
    logging_steps |->
      OrDefault(config, "logging_steps",
                IF is_cuda THEN training_defaults.DEFAULT_LOGGING_STEPS_CUDA ELSE training_defaults.DEFAULT_LOGGING_STEPS_CPU),
    save_strategy |-> OrDefault(config, "save_strategy", training_defaults.DEFAULT_SAVE_STRATEGY) ]

\* TrainingJob.get_effective_lora_config
get_effective_lora_config(config) ==
  [ r |-> OrDefault(config, "r", training_defaults.DEFAULT_LORA_R),
    lora_alpha |-> OrDefault(config, "lora_alpha", training_defaults.DEFAULT_LORA_ALPHA),
    lora_dropout |-> OrDefault(config, "lora_dropout", training_defaults.DEFAULT_LORA_DROPOUT),
    target_modules |->
      OrDefault(config, "target_modules", training_defaults.DEFAULT_LORA_TARGET_MODULES),
    bias |-> OrDefault(config, "bias", training_defaults.DEFAULT_LORA_BIAS),
    use_rslora |-> OrDefault(config, "use_rslora", training_defaults.DEFAULT_USE_RSLORA),
    use_dora |-> OrDefault(config, "use_dora", training_defaults.DEFAULT_USE_DORA),
    modules_to_save |-> IfTruthy(config, "modules_to_save", None) ]

\* TrainingJob.get_effective_quantization_config
get_effective_quantization_config(config) ==
  [ load_in_4bit |-> OrDefault(config, "load_in_4bit", training_defaults.DEFAULT_LOAD_IN_4BIT),
    bnb_4bit_quant_type |->
      OrDefault(config, "bnb_4bit_quant_type", training_defaults.DEFAULT_BNB_4BIT_QUANT_TYPE),
    bnb_4bit_use_double_quant |->
      OrDefault(config, "bnb_4bit_use_double_quant", training_defaults.DEFAULT_BNB_4BIT_USE_DOUBLE_QUANT),
    bnb_4bit_compute_dtype |->
      OrDefault(config, "bnb_4bit_compute_dtype", training_defaults.DEFAULT_BNB_4BIT_COMPUTE_DTYPE),
    output_quantization |->
      OrDefault(config, "output_quantization", training_defaults.DEFAULT_OUTPUT_QUANTIZATION) ]

\* TrainingJob.get_effective_modelfile_config
get_effective_modelfile_config(config) ==
  [ temperature |-> OrDefault(config, "temperature", training_defaults.DEFAULT_TEMPERATURE),
    top_p |-> OrDefault(config, "top_p", training_defaults.DEFAULT_TOP_P),
    top_k |-> OrDefault(config, "top_k", training_defaults.DEFAULT_TOP_K),
    stop |-> OrDefault(config, "stop", training_defaults.DEFAULT_STOP),
    system |-> OrDefault(config, "system", training_defaults.DEFAULT_SYSTEM),
    repeat_penalty |-> OrDefault(config, "repeat_penalty", training_defaults.DEFAULT_REPEAT_PENALTY),
    repeat_last_n |-> OrDefault(config, "repeat_last_n", training_defaults.DEFAULT_REPEAT_LAST_N),
    num_ctx |-> OrDefault(config, "num_ctx", training_defaults.DEFAULT_NUM_CTX) ]

\* No call of get_effective_*_config is being looked at.
NoCall ==
  [ pc |-> "none", category |-> None, config |-> NoConfig, is_cuda |-> FALSE,
    result |-> << >> ]

\* The config objects of a category: none, one without overrides, and one
\* with one parameter overridden.
ConfigsOf(category) ==
  { NoConfig } \cup
  UNION { { [ EmptyConfig(category) EXCEPT !.fields[p] = x ] :
              x \in { None } \cup ValidOverrides(p) } : p \in ConfigFields(category) }

\* The calls looked at, on either device.
ConfigCalls ==
  UNION { { [ pc |-> "call", category |-> c, config |-> k, is_cuda |-> dev,
              result |-> << >> ] : k \in ConfigsOf(c), dev \in BOOLEAN } :
          c \in ConfigCategories }

Returns(result) ==
  /\ eff' = [ eff EXCEPT !.pc = "returned", !.result = result ]
  /\ UNCHANGED << registry, njobs, job, cache, req, data, held, ws >>

JobGetEffectiveTrainingConfig ==
  /\ eff.pc = "call" /\ eff.category = "training"
  /\ Returns(get_effective_training_config(eff.config, eff.is_cuda))

JobGetEffectiveLoraConfig ==
  /\ eff.pc = "call" /\ eff.category = "lora"
  /\ Returns(get_effective_lora_config(eff.config))

JobGetEffectiveQuantizationConfig ==
  /\ eff.pc = "call" /\ eff.category = "quantization"
  /\ Returns(get_effective_quantization_config(eff.config))

JobGetEffectiveModelfileConfig ==
  /\ eff.pc = "call" /\ eff.category = "modelfile"
  /\ Returns(get_effective_modelfile_config(eff.config))

\* No job, no request.
InitService ==
  /\ registry = [ p \in Projects |-> 0 ]
  /\ njobs = 0
  /\ job = [ j \in JobIds |-> NoJob ]
  /\ cache = [ p \in Projects |-> FALSE ]
  /\ req = NoReq


\* No observer is connected.
Init ==
  /\ InitService
  /\ held = NoHistory(FALSE)
  /\ data = DefaultData
  /\ ws = WsState("disconnected")
  /\ eff = NoCall

\* ---------------------------------------------------------------------------
\* TrainingService: registry
\* ---------------------------------------------------------------------------
InSeq(x, s) == \E k \in 1 .. Len(s) : s[k] = x

\* TrainingService.get_job
get_job(slug) == registry[slug]

is_running_m(slug) ==
  IF registry[slug] = 0 THEN FALSE
  ELSE job[registry[slug]].status \notin { "completed", "failed", "cancelled" }

\* TrainingService.is_running
is_running(slug) ==
  IF registry[slug] = 0 THEN FALSE
  ELSE InSeq(job[registry[slug]].status, ACTIVE_STATUSES)

\* ---------------------------------------------------------------------------
\* Handlers (api/routers/training.py) and the service calls they make
\* ---------------------------------------------------------------------------
\* GET /{slug}/train/status: can_start of the response for a project without
\* a job (True) or with a job of the given status (not is_running).
StatusCanStart(has_job, status) ==
  IF ~has_job THEN "True"
  ELSE PyBool(~InSeq(status, ACTIVE_STATUSES))

\* GET /{slug}/train/status: the response.
get_training_status(slug) ==
  IF get_job(slug) = 0
    THEN [ job_id |-> 0, status |-> "idle", can_start |-> StatusCanStart(FALSE, "idle") ]
    ELSE [ job_id |-> get_job(slug), status |-> job[get_job(slug)].status,
           can_start |-> PyBool(~is_running(slug)) ]

Done(r, code, ec) == [ r EXCEPT !.pc = "done", !.code = code, !.error_code = ec ]

\* StartTrainingRequest: data_files has min_length=1; a body that violates it
\* is answered 422 by the framework and the handler does not run.
RequestValid(files) == Len(files) >= 1

\* POST /{slug}/train, from the request to the call of the service (the checks
\* read the registry and the data directory only).
RouterStartChecks(slug, files) ==
  IF ~RequestValid(files) THEN [ code |-> 422, error_code |-> None ]
  ELSE IF is_running(slug) THEN [ code |-> 409, error_code |-> TRAINING_ALREADY_RUNNING ]
  ELSE IF Len(files) = 0 THEN [ code |-> 400, error_code |-> TRAINING_NO_DATA_FILES ]
  ELSE IF \E k \in 1 .. Len(files) : files[k] \notin DataDir
    THEN [ code |-> 400, error_code |-> TRAINING_DATA_FILE_NOT_FOUND ]
  ELSE [ code |-> 0, error_code |-> None ]

\* (njobs < MaxJobs bounds the number of jobs of a behaviour.)
RouterStart(slug, files) ==
  /\ req.op = "none"
  /\ njobs < MaxJobs
  /\ LET c == RouterStartChecks(slug, files)
         r == [ NoReq EXCEPT !.op = "start", !.slug = slug, !.data_files = files ]
     IN  req' = IF c.code # 0 THEN Done(r, c.code, c.error_code)
                ELSE [ r EXCEPT !.pc = "svc_start" ]
  /\ UNCHANGED << registry, njobs, job, cache, data, held, ws, eff >>

\* TrainingService.start_training, the block under the lock: the admission
\* check, the construction of the job and its registration.  The ValueError of
\* a rejected call is not caught by the handler: the framework answers 500.
SvcStartLocked ==
  /\ req.op = "start" /\ req.pc = "svc_start"
  /\ IF is_running(req.slug)
       THEN /\ req' = [ Done(req, 500, None) EXCEPT !.ret = "ValueError" ]
            /\ UNCHANGED << registry, njobs, job, held >>
       ELSE /\ njobs' = njobs + 1
            /\ job' = [ job EXCEPT ![njobs + 1] = TrainingJob(req.slug, req.data_files) ]
            /\ held' = Record(njobs + 1, TrainingJob(req.slug, req.data_files))
            /\ registry' = [ registry EXCEPT ![req.slug] = njobs + 1 ]
            /\ req' = [ req EXCEPT !.pc = "svc_thread", !.job = njobs + 1 ]
  /\ UNCHANGED << cache, data, ws, eff >>

\* TrainingService.start_training, outside the lock: create and start the
\* worker thread, return the job.
SvcStartThread ==
  /\ req.op = "start" /\ req.pc = "svc_thread"
  /\ job' = [ job EXCEPT ![req.job].pc = "status", ![req.job].stage = 1 ]
  /\ req' = [ req EXCEPT !.pc = "respond" ]
  /\ UNCHANGED << registry, njobs, cache, data, held, ws, eff >>

\* The handler builds StartTrainingResponse(job_id, status=job.status).
RouterStartResponse ==
  /\ req.op = "start" /\ req.pc = "respond"
  /\ req' = [ Done(req, 202, None) EXCEPT !.status = job[req.job].status ]
  /\ UNCHANGED << registry, njobs, job, cache, data, held, ws, eff >>

\* POST /{slug}/train/cancel: the handler's own is_running check.
RouterCancel(slug) ==
  /\ req.op = "none"
  /\ LET r == [ NoReq EXCEPT !.op = "cancel", !.slug = slug ]
     IN  req' = IF ~is_running(slug) THEN Done(r, 404, TRAINING_NOT_RUNNING)
                ELSE [ r EXCEPT !.pc = "svc_cancel" ]
  /\ UNCHANGED << registry, njobs, job, cache, data, held, ws, eff >>

\* TrainingService.cancel_training: get_job, then the is_running check.
SvcCancelCheck ==
  /\ req.op = "cancel" /\ req.pc = "svc_cancel"
  /\ LET j == get_job(req.slug)
     IN  req' = IF j = 0 \/ ~is_running(req.slug)
                  THEN [ req EXCEPT !.pc = "respond", !.job = j, !.ret = "False" ]
                  ELSE [ req EXCEPT !.pc = "svc_request_cancel", !.job = j ]
  /\ UNCHANGED << registry, njobs, job, cache, data, held, ws, eff >>

\* TrainingJob.request_cancel, and cancel_training returns True.
SvcRequestCancel ==
  /\ req.op = "cancel" /\ req.pc = "svc_request_cancel"
  /\ job' = [ job EXCEPT ![req.job].cancel_requested = TRUE ]
  /\ req' = [ req EXCEPT !.pc = "respond", !.ret = "True" ]
  /\ UNCHANGED << registry, njobs, cache, data, held, ws, eff >>

\* The handler ignores the value cancel_training returned.
RouterCancelResponse ==
  /\ req.op = "cancel" /\ req.pc = "respond"
  /\ req' = Done(req, 200, None)
  /\ UNCHANGED << registry, njobs, job, cache, data, held, ws, eff >>

\* The response is sent; the event loop is free for the next request.
HandlerReturn ==
  /\ req.pc = "done"
  /\ req' = NoReq
  /\ UNCHANGED << registry, njobs, job, cache, data, held, ws, eff >>

\* ---------------------------------------------------------------------------
\* The worker thread: TrainingService._run_training
\* ---------------------------------------------------------------------------
\* job.status = ... written before stage i is marked in_progress (None: the
\* code writes no status there).
StageStatus(i) ==
  CASE i = 1 -> "starting"
    [] i = 2 -> "loading_data"
    [] i = 3 -> "loading_model"
    [] i = 6 -> "training"
    [] i = 7 -> "exporting"
    [] i = 8 -> "converting"
    [] OTHER -> None

\* The exceptions the opaque call of stage i can raise ("Exception": any
\* exception other than the ones named).
Raises(i) ==
  CASE i = 2 -> { "ImportError" }
    [] i = 8 -> { "FileNotFoundError", "RuntimeError", "Exception" }
    [] OTHER -> { "Exception" }

\* Does the try block around stage i have a handler for e?
Caught(i, e) ==
  CASE i = 1 -> FALSE
    [] i = 2 -> e = "ImportError"
    [] i = 8 -> e \in { "FileNotFoundError", "RuntimeError" }
    [] i = 9 -> FALSE
    [] OTHER -> TRUE

\* job.error_code set by the handler of stage i for exception e.
FailCode(i, e) ==
  CASE i \in { 2, 3 } -> TRAINING_MODEL_LOAD_FAILED
    [] i \in { 4, 5, 6 } -> TRAINING_FAILED
    [] i = 7 -> TRAINING_EXPORT_FAILED
    [] i = 8 /\ e = "FileNotFoundError" -> TRAINING_LLAMA_CPP_NOT_FOUND
    [] OTHER -> TRAINING_EXPORT_FAILED

\* Does the handler of stage i call job.cleanup_cache() before it returns?
FailCleanup(i) == i \in { 5, 6, 7, 8 }

\* Is job.is_cancelled tested after the call of stage i returned?
HasCancelCheck(i) == i # 9

At(j, pc) == job[j].pc = pc

Goto(r, pc) == [ r EXCEPT !.pc = pc ]

\* Where the worker goes when the call of stage i raised e.
OnRaise(r, e) ==
  IF Caught(r.stage, e) THEN [ r EXCEPT !.pc = "fail_task", !.exc = e ]
  ELSE Goto(r, "unexp_code")

Step(j, r) ==
  /\ job' = [ job EXCEPT ![j] = r ]
  /\ held' = Record(j, r)
  /\ UNCHANGED << registry, njobs, cache, req, data, ws, eff >>

NextPc(i) ==
  IF i = NumTasks THEN "done_status"
  ELSE IF StageStatus(i + 1) # None THEN "status" ELSE "begin"

\* job.status = <phase>
WorkerSetStatus(j) ==
  /\ At(j, "status")
  /\ Step(j, [ job[j] EXCEPT !.status = StageStatus(job[j].stage), !.pc = "begin" ])

\* job.set_task_status(<stage>, IN_PROGRESS)
WorkerBegin(j) ==
  /\ At(j, "begin")
  /\ Step(j, [ job[j] EXCEPT !.tasks[job[j].stage] = "in_progress",
                             !.pc = CASE job[j].stage = 5 -> "tok_mkdir"
                                      [] job[j].stage = 6 -> "train_run"
                                      [] OTHER -> "work" ])

\* The opaque call of a stage returns.
WorkerWorkReturns(j) ==
  /\ At(j, "work")
  /\ Step(j, Goto(job[j], IF HasCancelCheck(job[j].stage) THEN "check" ELSE "complete"))

\* The opaque call of a stage raises.
WorkerWorkRaises(j) ==
  /\ At(j, "work")
  /\ \E e \in Raises(job[j].stage) : Step(j, OnRaise(job[j], e))

\* if job.is_cancelled: self._handle_cancellation(job); return
WorkerCheckCancel(j) ==
  /\ At(j, "check")
  /\ Step(j, Goto(job[j], IF job[j].cancel_requested THEN "cancel_tasks" ELSE "complete"))

WorkerComplete_m(j) ==
  /\ At(j, "complete")
  /\ Step(j, [ job[j] EXCEPT !.stage = IF @ = NumTasks THEN @ ELSE @ + 1,
                             !.pc = NextPc(job[j].stage) ])

\* job.complete_task(<stage>), then on to the next stage.
WorkerComplete(j) ==
  /\ At(j, "complete")
  /\ Step(j, [ job[j] EXCEPT !.tasks[job[j].stage] = "completed",
                             !.stage = IF @ = NumTasks THEN @ ELSE @ + 1,
                             !.pc = NextPc(job[j].stage) ])

\* --- stage tokenize: TrainingService._tokenize_dataset ---------------------
\* job.cache_dir.mkdir(parents=True, exist_ok=True)
WorkerTokMkdir(j) ==
  /\ At(j, "tok_mkdir")
  /\ job' = [ job EXCEPT ![j] = [ job[j] EXCEPT !.pc = "tok_file", !.idx = 1 ] ]
  /\ cache' = [ cache EXCEPT ![job[j].project_slug] = TRUE ]
  /\ UNCHANGED << registry, njobs, req, data, held, ws, eff >>

\* --- one line of a data file ---------------------------------------------------
\* str.strip
strip(text) == IF text = SpacesLine THEN "" ELSE text

\* json.loads: the parsed value, or JSONDecodeError.
json_loads(text) ==
  CASE text = ListLine ->
         [ kind |-> "list", instruction |-> "absent", output |-> "absent" ]
    [] text = NoOutputLine ->
         [ kind |-> "dict", instruction |-> "str", output |-> "absent" ]
    [] text = IntFieldLine ->
         [ kind |-> "dict", instruction |-> "int", output |-> "str" ]
    [] text = ValidLine ->
         [ kind |-> "dict", instruction |-> "str", output |-> "str" ]
    [] OTHER ->
         [ kind |-> "JSONDecodeError", instruction |-> "absent", output |-> "absent" ]

\* TrainingService._validate_training_row
validate_training_row(d) ==
  IF d.instruction = "absent" \/ d.output = "absent" THEN FALSE
  ELSE IF d.instruction # "str" \/ d.output # "str" THEN FALSE
  ELSE TRUE

\* The body of `for line in f`: what the loop does with one line.
LineOutcome_m(text) ==
  IF strip(text) = "" THEN "skipped"
  ELSE LET d == json_loads(strip(text))
       IN  IF d.kind = "JSONDecodeError" THEN "skipped"
           ELSE IF d.kind # "dict" THEN "skipped"
           ELSE IF ~validate_training_row(d) THEN "skipped"
           ELSE "loaded"

LineOutcome(text) ==
  IF strip(text) = "" THEN "blank"
  ELSE LET d == json_loads(strip(text))
       IN  IF d.kind = "JSONDecodeError" THEN "skipped"
           ELSE IF d.kind # "dict" THEN "skipped"
           ELSE IF ~validate_training_row(d) THEN "skipped"
           ELSE "loaded"

\* for idx, filename in enumerate(job.data_files):
\*     job.set_file_status(filename, IN_PROGRESS)
WorkerTokFileBegin(j) ==
  /\ At(j, "tok_file")
  /\ LET r == job[j] IN
     IF r.idx > Len(r.data_files) THEN Step(j, Goto(r, "tok_map"))
     ELSE Step(j, Goto(set_file_status(r, r.data_files[r.idx], "in_progress", 0, 0),
                       "tok_read"))

\* The file is absent: FAILED, one more error on the tokenize stage, next
\* file.  Else the file is opened (open() may raise) and its counters start
\* at zero.
WorkerTokFileRead(j) ==
  /\ At(j, "tok_read")
  /\ LET r == job[j]
         f == r.data_files[r.idx]
     IN  \/ /\ f \notin DataDir
            /\ Step(j, [ increment_task_error_count(set_file_status(r, f, "failed", 0, 0), 5)
                           EXCEPT !.idx = @ + 1, !.pc = "tok_file" ])
         \/ /\ f \in DataDir
            /\ Step(j, [ r EXCEPT !.line = 1, !.loaded_in_file = 0,
                                  !.skipped_in_file = 0, !.pc = "tok_line" ])
         \/ /\ f \in DataDir
            /\ Step(j, OnRaise(r, "Exception"))

\* One iteration of `for line in f` (reading the file may raise).
WorkerTokLine(j) ==
  /\ At(j, "tok_line")
  /\ LET r == job[j]
         lines == data[r.data_files[r.idx]].lines
     IN  /\ r.line <= Len(lines)
         /\ \/ LET o == LineOutcome(lines[r.line])
                   n == [ r EXCEPT !.line = @ + 1 ]
               IN  Step(j, CASE o = "blank" -> n
                             [] o = "skipped" ->
                                  increment_task_error_count(
                                    [ n EXCEPT !.skipped_in_file = @ + 1 ], 5)
                             [] OTHER ->
                                  [ n EXCEPT !.loaded_in_file = @ + 1,
                                             !.all_texts = @ + 1 ])
            \/ Step(j, OnRaise(r, "Exception"))

\* The file is read: job.set_file_status(filename, COMPLETED, rows_loaded,
\* rows_skipped); next file.
WorkerTokFileDone(j) ==
  /\ At(j, "tok_line")
  /\ LET r == job[j]
         lines == data[r.data_files[r.idx]].lines
     IN  /\ r.line > Len(lines)
         /\ Step(j, [ set_file_status(r, r.data_files[r.idx], "completed",
                                      r.loaded_in_file, r.skipped_in_file)
                        EXCEPT !.idx = @ + 1, !.pc = "tok_file" ])

\* Dataset.from_dict(...).map(tokenize_function, cache_file_name=...)
WorkerTokMap(j) ==
  /\ At(j, "tok_map")
  /\ \/ Step(j, Goto(job[j], "check"))
     \/ Step(j, OnRaise(job[j], "Exception"))

\* --- stage train: TrainingService._train -----------------------------------
\* ProgressCallback.on_step_end: one more step is done; the callback asks the
\* trainer to stop when the job is cancelled.
WorkerTrainStep(j) ==
  /\ At(j, "train_run")
  /\ job[j].current_step < MaxSteps /\ ~job[j].should_stop
  /\ Step(j, [ job[j] EXCEPT !.current_step = @ + 1,
                             !.should_stop = job[j].cancel_requested ])

\* trainer.train() returns: all steps are done or the callback stopped it.
WorkerTrainReturns(j) ==
  /\ At(j, "train_run")
  /\ job[j].current_step = MaxSteps \/ job[j].should_stop
  /\ Step(j, Goto(job[j], "train_after"))

\* trainer.train() raises.
WorkerTrainRaises(j) ==
  /\ At(j, "train_run")
  /\ Step(j, Goto(job[j], "train_except"))

\* if job.is_cancelled: raise InterruptedError; else save the model (which
\* may raise) and return its path.
WorkerTrainAfter(j) ==
  /\ At(j, "train_after")
  /\ IF job[j].cancel_requested THEN Step(j, Goto(job[j], "train_except"))
     ELSE \/ Step(j, Goto(job[j], "check"))
          \/ Step(j, Goto(job[j], "train_except"))

WorkerTrainExcept_m(j) ==
  /\ At(j, "train_except")
  /\ Step(j, OnRaise(job[j], "Exception"))

\* except Exception: if job.is_cancelled: _handle_cancellation; return
WorkerTrainExcept(j) ==
  /\ At(j, "train_except")
  /\ Step(j, IF job[j].cancel_requested THEN Goto(job[j], "cancel_tasks")
             ELSE OnRaise(job[j], "Exception"))

\* --- the handler of a stage's exception ------------------------------------
\* job.fail_task(<stage>)
WorkerFailTask(j) ==
  /\ At(j, "fail_task")
  /\ Step(j, [ job[j] EXCEPT !.tasks[job[j].stage] = "failed", !.pc = "fail_code" ])

\* job.error_code = <code of the stage>
WorkerFailCode(j) ==
  /\ At(j, "fail_code")
  /\ Step(j, [ job[j] EXCEPT !.error_code = FailCode(job[j].stage, job[j].exc),
                             !.pc = "fail_status" ])

\* job.status = FAILED
WorkerFailStatus(j) ==
  /\ At(j, "fail_status")
  /\ Step(j, [ job[j] EXCEPT !.status = "failed",
                 !.pc = IF FailCleanup(job[j].stage) THEN "cleanup" ELSE "exited" ])

\* --- except Exception around the whole run ----------------------------------
WorkerUnexpectedCode(j) ==
  /\ At(j, "unexp_code")
  /\ Step(j, [ job[j] EXCEPT !.error_code = TRAINING_FAILED, !.pc = "unexp_status" ])

WorkerUnexpectedStatus(j) ==
  /\ At(j, "unexp_status")
  /\ Step(j, [ job[j] EXCEPT !.status = "failed", !.pc = "cleanup" ])

\* --- success ----------------------------------------------------------------
WorkerDone_m(j) ==
  /\ At(j, "done_status")
  /\ Step(j, [ job[j] EXCEPT !.status = "completed" ])

\* job.status = COMPLETED; job.progress = 100.0
WorkerDone(j) ==
  /\ At(j, "done_status")
  /\ Step(j, [ job[j] EXCEPT !.status = "completed", !.pc = "cleanup" ])

\* --- TrainingService._handle_cancellation -----------------------------------
SkipOpen(st) == IF st \in { "in_progress", "pending" } THEN "skipped" ELSE st

\* job.set_file_status(filename, SKIPPED) for a pending or in_progress file.
SkipOpenFile(fs) ==
  IF fs.status \in { "in_progress", "pending" }
    THEN [ fs EXCEPT !.status = "skipped", !.rows_loaded = 0, !.rows_skipped = 0 ]
    ELSE fs

handle_cancellation_marks_m(r) ==
  [ r EXCEPT !.tasks = [ i \in DOMAIN r.tasks |->
                          IF r.tasks[i] = "in_progress" THEN "skipped" ELSE r.tasks[i] ],
             !.file_statuses = [ f \in DOMAIN r.file_statuses |-> SkipOpenFile(r.file_statuses[f]) ] ]

\* The two loops: every in_progress or pending task, and every in_progress or
\* pending file, becomes skipped.
handle_cancellation_marks(r) ==
  [ r EXCEPT !.tasks = [ i \in DOMAIN r.tasks |-> SkipOpen(r.tasks[i]) ],
             !.file_statuses = [ f \in DOMAIN r.file_statuses |-> SkipOpenFile(r.file_statuses[f]) ] ]

WorkerCancelMarks(j) ==
  /\ At(j, "cancel_tasks")
  /\ Step(j, Goto(handle_cancellation_marks(job[j]), "cancel_status"))

\* job.status = CANCELLED
WorkerCancelStatus(j) ==
  /\ At(j, "cancel_status")
  /\ Step(j, [ job[j] EXCEPT !.status = "cancelled", !.pc = "cancel_code" ])

\* job.error_code = TRAINING_CANCELLED
WorkerCancelCode(j) ==
  /\ At(j, "cancel_code")
  /\ Step(j, [ job[j] EXCEPT !.error_code = TRAINING_CANCELLED, !.pc = "cleanup" ])

\* --- TrainingJob.cleanup_cache, the last call on the paths that make it ----
\* (shutil.rmtree is taken to succeed.)
WorkerCleanup(j) ==
  /\ At(j, "cleanup")
  /\ job' = [ job EXCEPT ![j] = Goto(job[j], "exited") ]
  /\ cache' = [ cache EXCEPT ![job[j].project_slug] = FALSE ]
  /\ UNCHANGED << registry, njobs, req, data, held, ws, eff >>

Worker(j) ==
  \/ WorkerSetStatus(j) \/ WorkerBegin(j) \/ WorkerWorkReturns(j)
  \/ WorkerWorkRaises(j) \/ WorkerCheckCancel(j) \/ WorkerComplete(j)
  \/ WorkerTokMkdir(j) \/ WorkerTokFileBegin(j) \/ WorkerTokFileRead(j)
  \/ WorkerTokLine(j) \/ WorkerTokFileDone(j) \/ WorkerTokMap(j)
  \/ WorkerTrainStep(j) \/ WorkerTrainReturns(j) \/ WorkerTrainRaises(j)
  \/ WorkerTrainAfter(j) \/ WorkerTrainExcept(j)
  \/ WorkerFailTask(j) \/ WorkerFailCode(j) \/ WorkerFailStatus(j)
  \/ WorkerUnexpectedCode(j) \/ WorkerUnexpectedStatus(j)
  \/ WorkerDone(j)
  \/ WorkerCancelMarks(j) \/ WorkerCancelStatus(j) \/ WorkerCancelCode(j)
  \/ WorkerCleanup(j)

Handler ==
  \/ \E slug \in Projects, files \in RequestFiles : RouterStart(slug, files)
  \/ SvcStartLocked \/ SvcStartThread \/ RouterStartResponse
  \/ \E slug \in Projects : RouterCancel(slug)
  \/ SvcCancelCheck \/ SvcRequestCancel \/ RouterCancelResponse
  \/ HandlerReturn

Next == Handler \/ \E j \in JobIds : Worker(j)

Spec == Init /\ [][Next]_vars

\* One training run: the client sends its start requests before any job
\* exists (cancel requests at any time).  Same actions, same Init.
OneJobHandler ==
  \/ /\ njobs = 0
     /\ \E slug \in Projects, files \in RequestFiles : RouterStart(slug, files)
  \/ SvcStartLocked \/ SvcStartThread \/ RouterStartResponse
  \/ \E slug \in Projects : RouterCancel(slug)
  \/ SvcCancelCheck \/ SvcRequestCancel \/ RouterCancelResponse
  \/ HandlerReturn

OneJobNext == OneJobHandler \/ \E j \in JobIds : Worker(j)

OneJobSpec == Init /\ [][OneJobNext]_vars

\* A started thread is scheduled, and every opaque call returns or raises.
FairOneJobSpec == OneJobSpec /\ \A j \in JobIds : WF_vars(Worker(j))

\* Moreover start_training, once it has registered the job, goes on to start
\* its thread.
FairRunSpec == FairOneJobSpec /\ WF_vars(SvcStartThread)

\* ---------------------------------------------------------------------------
\* The push adapter: websocket_training_updates (api/routers/training.py)
\* ---------------------------------------------------------------------------
WsSlug == CHOOSE p \in Projects : TRUE

WsStep(w) ==
  /\ ws' = w
  /\ UNCHANGED << registry, njobs, job, cache, req, data, held, eff >>

\* send_json(m): the message is handed over, or the observer is gone and
\* WebSocketDisconnect ends the handler.
WsSend(m, pc) ==
  \/ WsStep([ WsState(pc) EXCEPT !.job = ws.job, !.msg = m ])
  \/ WsStep(WsState("disconnected"))

\* job = training_manager.get_job(slug)
WsGetJob ==
  /\ ws.pc = "poll"
  /\ WsStep([ ws EXCEPT !.job = get_job(WsSlug),
                        !.pc = IF get_job(WsSlug) = 0 THEN "send_idle" ELSE "get_progress" ])

\* No job: the idle status message, then asyncio.sleep(1).
WsSendIdle ==
  /\ ws.pc = "send_idle"
  /\ WsSend([ NoMsg EXCEPT !.type = "status", !.status = "idle", !.can_start = "True" ],
            "sleep")

\* progress = job.get_progress(): status, current_step and error_code are
\* copied (read in one step here; the separate reads of the code only add
\* combinations); tasks and file_statuses are lists of the job's live
\* TrainingTask and DataFileStatus objects.
WsGetProgress ==
  /\ ws.pc = "get_progress"
  /\ WsStep([ ws EXCEPT !.progress = [ status |-> job[ws.job].status,
                                       current_step |-> job[ws.job].current_step,
                                       error_code |-> job[ws.job].error_code ],
                        !.pc = "send" ])

\* tasks_data = [{...} for task in progress.tasks] and file_statuses_data =
\* [{...} for fs in progress.file_statuses] read the attributes of the live
\* objects as they are now (one step); then the progress message is sent.
WsSendProgress ==
  /\ ws.pc = "send"
  /\ LET tasks_data == get_tasks_list(job[ws.job])
         file_statuses_data == get_file_statuses_list(job[ws.job])
     IN  WsSend([ type |-> "progress", job_id |-> ws.job,
                  status |-> ws.progress.status,
                  error_code |-> ws.progress.error_code,
                  current_step |-> ws.progress.current_step,
                  can_start |-> "False",
                  tasks |-> tasks_data, file_statuses |-> file_statuses_data ],
                "check")

\* if job.status in [COMPLETED, FAILED, CANCELLED]: the done message, with
\* job.status and job.error_code as they are now and the lists of the
\* progress message; asyncio.sleep(1); continue.  Else asyncio.sleep(0.3).
WsSendDone_m ==
  /\ ws.pc = "check"
  /\ IF job[ws.job].status \in { "completed", "failed", "cancelled" }
       THEN WsStep([ WsState("returned") EXCEPT !.job = ws.job ])
       ELSE WsStep([ WsState("sleep") EXCEPT !.job = ws.job ])

WsSendDone ==
  /\ ws.pc = "check"
  /\ IF job[ws.job].status \in { "completed", "failed", "cancelled" }
       THEN WsSend([ ws.msg EXCEPT !.type = "done", !.status = job[ws.job].status,
                                   !.error_code = job[ws.job].error_code,
                                   !.can_start = None ], "sleep")
       ELSE WsStep([ WsState("sleep") EXCEPT !.job = ws.job ])

\* asyncio.sleep(...) is over: the next iteration of `while True`.
WsSleep ==
  /\ ws.pc = "sleep"
  /\ WsStep(WsState("poll"))

WsNext ==
  \/ WsGetJob \/ WsSendIdle \/ WsGetProgress
  \/ WsSendProgress \/ WsSendDone \/ WsSleep

\* One training run with an observer connected from the start; the history
\* of the job is kept.
SnapInit ==
  /\ InitService
  /\ held = NoHistory(TRUE)
  /\ data = DefaultData
  /\ ws = WsState("poll")
  /\ eff = NoCall

SnapNext == OneJobHandler \/ ( \E j \in JobIds : Worker(j) ) \/ WsNext

SnapSpec == SnapInit /\ [][SnapNext]_vars

\* An observer is connected from the start.  The client cancels a job only
\* while it is starting, and starts a job when none exists or when the jobs
\* before it were cancelled at their first checkpoint and their workers have
\* exited.
PushInit ==
  /\ InitService
  /\ held = NoHistory(FALSE)
  /\ data = DefaultData
  /\ ws = WsState("poll")
  /\ eff = NoCall

PushHandler ==
  \/ /\ \A j \in Created : /\ job[j].pc = "exited" /\ job[j].status = "cancelled"
                            /\ job[j].tasks[1] = "skipped"
     /\ \E slug \in Projects, files \in RequestFiles : RouterStart(slug, files)
  \/ SvcStartLocked \/ SvcStartThread \/ RouterStartResponse
  \/ \E slug \in Projects :
       /\ registry[slug] # 0
       /\ job[registry[slug]].status = "starting"
       /\ RouterCancel(slug)
  \/ SvcCancelCheck \/ SvcRequestCancel \/ RouterCancelResponse
  \/ HandlerReturn

PushNext == PushHandler \/ ( \E j \in JobIds : Worker(j) ) \/ WsNext

PushSpec == PushInit /\ [][PushNext]_vars

\* The event loop runs the websocket handler whenever it can take a step.
FairPushSpec == PushSpec /\ WF_vars(WsNext)

\* Ingestion: one training run over one or two files, one of them named
\* twice, for every content of a.jsonl of at most MaxLines lines.
RECURSIVE SeqsUpTo(_, _)
SeqsUpTo(S, n) ==
  IF n = 0 THEN { << >> }
  ELSE LET shorter == SeqsUpTo(S, n - 1)
       IN  shorter \cup { Append(q, x) : q \in shorter, x \in S }

IngestRequestFiles ==
  { << "a.jsonl" >>, << "a.jsonl", "a.jsonl" >>, << "b.jsonl", "a.jsonl" >> }

IngestData ==
  { [ f \in FileNames |->
        CASE f = "a.jsonl" -> FileOf(lines)
          [] f = "b.jsonl" -> FileOf(<< BadJsonLine >>)
          [] OTHER -> AbsentFile ] : lines \in SeqsUpTo(LineTexts, MaxLines) }

IngestInit ==
  /\ InitService
  /\ held = NoHistory(FALSE)
  /\ data \in IngestData
  /\ ws = WsState("disconnected")
  /\ eff = NoCall

IngestHandler ==
  \/ /\ njobs = 0
     /\ \E slug \in Projects, files \in IngestRequestFiles : RouterStart(slug, files)
  \/ SvcStartLocked \/ SvcStartThread \/ RouterStartResponse
  \/ \E slug \in Projects : RouterCancel(slug)
  \/ SvcCancelCheck \/ SvcRequestCancel \/ RouterCancelResponse
  \/ HandlerReturn

IngestNext == IngestHandler \/ \E j \in JobIds : Worker(j)

IngestSpec == IngestInit /\ [][IngestNext]_vars

\* DELETE /{slug}/data/{filename} (api/routers/data_files.py): the file is
\* unlinked; a handle that is open on it still reads its lines.
RouterDeleteDataFile(filename) ==
  /\ req.op = "none"
  /\ filename \in DataDir
  /\ data' = [ data EXCEPT ![filename].exists = FALSE ]
  /\ UNCHANGED << registry, njobs, job, cache, req, held, ws, eff >>

\* One training run over b.jsonl and a.jsonl while the client deletes data
\* files of the project.
DeleteInit ==
  /\ InitService
  /\ held = NoHistory(FALSE)
  /\ data = [ f \in FileNames |->
                CASE f = "a.jsonl" -> FileOf(<< ValidLine, BadJsonLine >>)
                  [] f = "b.jsonl" -> FileOf(<< BadJsonLine >>)
                  [] OTHER -> AbsentFile ]
  /\ ws = WsState("disconnected")
  /\ eff = NoCall

DeleteHandler ==
  \/ /\ njobs = 0
     /\ \E slug \in Projects : RouterStart(slug, << "b.jsonl", "a.jsonl" >>)
  \/ SvcStartLocked \/ SvcStartThread \/ RouterStartResponse
  \/ \E slug \in Projects : RouterCancel(slug)
  \/ SvcCancelCheck \/ SvcRequestCancel \/ RouterCancelResponse
  \/ HandlerReturn
  \/ \E f \in FileNames : RouterDeleteDataFile(f)

DeleteNext == DeleteHandler \/ \E j \in JobIds : Worker(j)

DeleteSpec == DeleteInit /\ [][DeleteNext]_vars

\* The effective configuration of a job, for every call of ConfigCalls.
ConfigInit ==
  /\ InitService
  /\ held = NoHistory(FALSE)
  /\ data = DefaultData
  /\ ws = WsState("disconnected")
  /\ eff \in ConfigCalls

ConfigNext ==
  \/ JobGetEffectiveTrainingConfig \/ JobGetEffectiveLoraConfig
  \/ JobGetEffectiveQuantizationConfig \/ JobGetEffectiveModelfileConfig

ConfigSpec == ConfigInit /\ [][ConfigNext]_vars

\* ---------------------------------------------------------------------------
\* Properties
\* ---------------------------------------------------------------------------
TerminalStatuses == { "completed", "failed", "cancelled" }

RunningStatuses ==
  { "starting", "loading_data", "loading_model", "training", "exporting",
    "converting" }

\* C1: for every project at most one job that was created for it has a
\* non-terminal status (anything but completed, failed, cancelled).
C1_AtMostOneNonTerminalJob ==
  \A p \in Projects :
    Cardinality({ j \in Created : /\ job[j].project_slug = p
                                  /\ job[j].status \notin TerminalStatuses }) <= 1

\* C2: a start_training call made while the registered job of the project has
\* one of the six running statuses raises the already-running error and leaves
\* the registry, the set of jobs and every job (status, stages, files,
\* cancellation flag, worker) as they were.
C2_RejectedStartChangesNothing ==
  [][ ( /\ req.op = "start" /\ req.pc = "svc_start"
        /\ req' # req
        /\ registry[req.slug] # 0
        /\ job[registry[req.slug]].status \in RunningStatuses )
      => ( /\ req'.pc = "done" /\ req'.ret = "ValueError"
           /\ registry' = registry /\ njobs' = njobs /\ job' = job ) ]_vars

C2_Witness ==
  /\ req.op = "start" /\ req.pc = "done" /\ req.ret = "ValueError"
  /\ registry[req.slug] = 1 /\ njobs = 1
  /\ job[1].status \in RunningStatuses

\* C3: every start request that is refused because a job is active is
\* answered 409 with TRAINING_ALREADY_RUNNING (a start request ends accepted,
\* refused by the validation of its body or its files, or refused so).
C3_RejectedStartIsAlreadyRunning ==
  ( req.op = "start" /\ req.pc = "done" /\ req.code \notin { 202, 400, 422 } )
    => ( req.code = 409 /\ req.error_code = TRAINING_ALREADY_RUNNING )

\* C4: is_running(p) is true exactly when a job is registered for p and its
\* status is one of starting, loading_data, loading_model, training,
\* exporting, converting.
C4_IsRunningIffActive ==
  \A p \in Projects :
    is_running(p) <=> ( /\ registry[p] # 0
                        /\ job[registry[p]].status \in RunningStatuses )

C4_Witness ==
  \E p \in Projects : is_running(p) /\ job[registry[p]].status = "converting"

\* C5: the status in the response of an accepted start request is idle or
\* starting.
C5_ResponseStatusIdleOrStarting ==
  ( req.op = "start" /\ req.pc = "done" /\ req.code = 202 )
    => req.status \in { "idle", "starting" }

\* C6: cancel_training sets the flag only on the job that is registered for
\* the project and running at that moment (and then returns True); when it
\* returns False no cancellation flag has changed.
C6_CancelFlagsRegisteredRunningJob ==
  [][ /\ ( ( req.op = "cancel" /\ req.pc = "svc_request_cancel" /\ req' # req )
           => ( /\ registry[req.slug] = req.job
                /\ job[req.job].status \in RunningStatuses
                /\ job'[req.job].cancel_requested
                /\ req'.ret = "True" ) )
      /\ ( ( req.op = "cancel" /\ req.pc = "svc_cancel" /\ req' # req )
           => ( /\ req'.ret = "False" <=> ~is_running(req.slug)
                /\ job' = job ) ) ]_vars

\* C7: a start request with an empty file list is refused with
\* TRAINING_NO_DATA_FILES and one that names a file absent from the data
\* directory with TRAINING_DATA_FILE_NOT_FOUND; neither creates a job nor
\* changes the registry.
C7_BadFileListRefused ==
  [][ ( req.op = "none" /\ req'.op = "start" )
      => /\ ( Len(req'.data_files) = 0
              => ( /\ req'.pc = "done"
                   /\ req'.error_code = TRAINING_NO_DATA_FILES
                   /\ UNCHANGED << registry, njobs, job >> ) )
         /\ ( ( \E k \in 1 .. Len(req'.data_files) : req'.data_files[k] \notin DataDir )
              => ( /\ req'.pc = "done"
                   /\ req'.error_code = TRAINING_DATA_FILE_NOT_FOUND
                   /\ UNCHANGED << registry, njobs, job >> ) ) ]_vars

\* C8: in a failed job, every stage after the failed stage is skipped and
\* every stage before it is completed.
C8_FailedStageNeighbours ==
  \A j \in Created :
    job[j].status = "failed" =>
      \A n \in 1 .. NumTasks :
        job[j].tasks[n] = "failed" =>
          /\ \A i \in 1 .. NumTasks : i > n => job[j].tasks[i] = "skipped"
          /\ \A i \in 1 .. NumTasks : i < n => job[j].tasks[i] = "completed"

\* C9: when a cancellation is handled, every stage that is pending or
\* in_progress becomes skipped and every completed stage stays completed; a
\* cancelled job has only completed and skipped stages, and no stage after a
\* skipped one is completed.
C9_CancelledStages ==
  /\ [] ( \A j \in Created :
            job[j].status = "cancelled" =>
              /\ \A i \in 1 .. NumTasks : job[j].tasks[i] \in { "completed", "skipped" }
              /\ \A i, k \in 1 .. NumTasks :
                   ( i < k /\ job[j].tasks[i] = "skipped" ) => job[j].tasks[k] = "skipped" )
  /\ [][ \A j \in Created :
           ( job[j].pc = "cancel_tasks" /\ job'[j].pc # "cancel_tasks" ) =>
             \A i \in 1 .. NumTasks :
               /\ job[j].tasks[i] \in { "pending", "in_progress" }
                    => job'[j].tasks[i] = "skipped"
               /\ job[j].tasks[i] = "completed" => job'[j].tasks[i] = "completed" ]_vars

C9_Witness ==
  \E j \in Created :
    /\ job[j].status = "cancelled"
    /\ job[j].tasks[3] = "completed" /\ job[j].tasks[4] = "skipped"

C11_ExactlyOneStageInProgress ==
  \A j \in Created :
    ( job[j].status \notin TerminalStatuses /\ job[j].pc \notin { "unborn", "exited" } )
      => \E n \in 1 .. NumTasks :
           /\ job[j].tasks[n] = "in_progress"
           /\ \A i \in 1 .. NumTasks : i # n => job[j].tasks[i] # "in_progress"
           /\ \A i \in 1 .. NumTasks : i < n => job[j].tasks[i] = "completed"

\* C12: a stage's status only moves pending -> in_progress -> completed,
\* failed or skipped, or pending -> skipped (so no stage re-enters
\* in_progress), and a stage becomes in_progress only when every earlier stage
\* of the catalog is completed (so stages run in catalog order).
AllowedStageMove(a, b) ==
  \/ a = "pending" /\ b \in { "in_progress", "skipped" }
  \/ a = "in_progress" /\ b \in { "completed", "failed", "skipped" }

C12_StagesInCatalogOrder ==
  [][ \A j \in Created : \A i \in 1 .. NumTasks :
        job'[j].tasks[i] # job[j].tasks[i] =>
          /\ AllowedStageMove(job[j].tasks[i], job'[j].tasks[i])
          /\ job'[j].tasks[i] = "in_progress" =>
               \A k \in 1 .. i - 1 : job[j].tasks[k] = "completed" ]_vars

C12_Witness ==
  \E j \in Created :
    /\ job[j].status = "completed"
    /\ \A i \in 1 .. NumTasks : job[j].tasks[i] = "completed"

\* C13: the worker calls cleanup_cache on every path by which it leaves the
\* run loop, so the cache directory of a job whose worker has exited does not
\* exist.
C13_CacheReleasedOnEveryExit ==
  /\ [] ( \A j \in Created : job[j].pc = "exited" => ~cache[job[j].project_slug] )
  /\ [][ \A j \in Created :
           ( job[j].pc # "exited" /\ job'[j].pc = "exited" ) => job[j].pc = "cleanup" ]_vars

\* C14: two failed jobs whose stages failed in different ways (import of the
\* libraries, model load, adapter setup / tokenize / training, adapter merge,
\* conversion tool missing, conversion tool failed) have different error codes.
FailureKind(r) ==
  CASE r.tasks[2] = "failed" -> "import_failed"
    [] r.tasks[3] = "failed" -> "model_load_failed"
    [] r.tasks[4] = "failed" \/ r.tasks[5] = "failed" \/ r.tasks[6] = "failed"
         -> "training_failed"
    [] r.tasks[7] = "failed" -> "export_failed"
    [] r.tasks[8] = "failed" /\ r.exc = "FileNotFoundError" -> "conversion_tool_missing"
    [] r.tasks[8] = "failed" -> "conversion_failed"
    [] OTHER -> "unexpected"

C14_FailureKindsHaveDistinctCodes ==
  \A j1, j2 \in Created :
    ( /\ job[j1].status = "failed" /\ job[j2].status = "failed"
      /\ FailureKind(job[j1]) # "unexpected" /\ FailureKind(job[j2]) # "unexpected"
      /\ FailureKind(job[j1]) # FailureKind(job[j2]) )
      => job[j1].error_code # job[j2].error_code

\* C15: a job all of whose input files hold only invalid rows (no row is
\* loaded from any file) never has stage tokenize completed and never enters
\* stage train; unless it is cancelled it ends failed with TRAINING_FAILED
\* and stage tokenize failed.
ValidRows == { ValidLine }

BlankRows == { BlankLine, SpacesLine }

NoValidRow(r) ==
  \A k \in 1 .. Len(r.data_files) :
    \A n \in 1 .. Len(data[r.data_files[k]].lines) :
      data[r.data_files[k]].lines[n] \notin ValidRows

C15_ZeroRowsFailTokenize ==
  \A j \in Created :
    NoValidRow(job[j]) =>
      /\ job[j].tasks[5] # "completed"
      /\ job[j].tasks[6] \in { "pending", "skipped" }
      /\ ( job[j].pc = "exited" /\ job[j].status # "cancelled" /\ job[j].tasks[4] = "completed" )
           => ( /\ job[j].status = "failed" /\ job[j].error_code = TRAINING_FAILED
                /\ job[j].tasks[5] = "failed" )

\* C16: a file that ends completed has rows_loaded = the number of its lines
\* that are valid rows and rows_skipped = the number of its other non-blank
\* lines (blank lines count in neither), and when stage tokenize is completed
\* its error_count is the number of such other non-blank lines over all the
\* files ingested.
RECURSIVE CountIn(_, _)
CountIn(lines, S) ==
  IF lines = << >> THEN 0
  ELSE ( IF Head(lines) \in S THEN 1 ELSE 0 ) + CountIn(Tail(lines), S)

RECURSIVE InvalidRowsOfFiles(_)
InvalidRowsOfFiles(files) ==
  IF files = << >> THEN 0
  ELSE CountIn(data[Head(files)].lines, LineTexts \ ( ValidRows \cup BlankRows ))
         + InvalidRowsOfFiles(Tail(files))

C16_EveryLineClassifiedOnce ==
  \A j \in Created :
    /\ \A f \in DOMAIN job[j].file_statuses :
         job[j].file_statuses[f].status = "completed" =>
           /\ job[j].file_statuses[f].rows_loaded = CountIn(data[f].lines, ValidRows)
           /\ job[j].file_statuses[f].rows_skipped =
                CountIn(data[f].lines, LineTexts \ ( ValidRows \cup BlankRows ))
    /\ job[j].tasks[5] = "completed" =>
         /\ job[j].error_count[5] = InvalidRowsOfFiles(job[j].data_files)
         /\ \A f \in DOMAIN job[j].file_statuses :
              job[j].file_statuses[f].status = "completed"

C16_Witness ==
  \E j \in Created :
    /\ job[j].data_files = << "a.jsonl" >>
    /\ data["a.jsonl"].lines = << ValidLine, BadJsonLine >>
    /\ job[j].file_statuses["a.jsonl"] =
         [ filename |-> "a.jsonl", status |-> "completed",
           rows_loaded |-> 1, rows_skipped |-> 1 ]
    /\ job[j].tasks[5] = "completed" /\ job[j].error_count[5] = 1

\* C17: a job keeps one file status per occurrence of a file name in its
\* list, and a file status that is completed, failed or skipped never changes
\* again.
C17_FileStatusPerOccurrenceAndFinal ==
  /\ [] ( \A j \in Created :
            Cardinality(DOMAIN job[j].file_statuses) = Len(job[j].data_files) )
  /\ [][ \A j \in Created : \A f \in DOMAIN job[j].file_statuses :
           job[j].file_statuses[f].status \in { "completed", "failed", "skipped" }
             => job'[j].file_statuses[f] = job[j].file_statuses[f] ]_vars

\* C18: the file-status list of a job's progress has as many entries as the
\* file list the job was started with, and names the same files in the same
\* order.
C18_FileStatusListKeepsOrder ==
  \A j \in Created :
    LET l == Projection(job[j]).file_statuses
    IN  /\ Len(l) = Len(job[j].data_files)
        /\ \A k \in 1 .. Len(l) : l[k].filename = job[j].data_files[k]

C18_Witness ==
  \E j \in Created :
    /\ job[j].data_files = << "b.jsonl", "a.jsonl" >>
    /\ job[j].file_statuses["b.jsonl"].status = "completed"
    /\ job[j].file_statuses["a.jsonl"].status = "in_progress"

\* C19: every progress message the observer is sent carries a combination of
\* status, step counter, error code, stage statuses and file statuses that the
\* job held at one instant.
C19_SnapshotIsPointInTime ==
  ws.msg.type = "progress" =>
    [ status |-> ws.msg.status, current_step |-> ws.msg.current_step,
      error_code |-> ws.msg.error_code, tasks |-> ws.msg.tasks,
      file_statuses |-> ws.msg.file_statuses ] \in held.values[ws.msg.job_id]

\* C20: the websocket handler goes on after the done message of a terminal
\* job (it ends only when the observer has disconnected), and once a new job
\* is registered for the project the observer, unless it disconnects or the
\* job is replaced first, is sent a progress message with the new job's id.
C20_KeepsDeliveringAfterTerminal ==
  /\ [][ ws.pc = "check" => ws'.pc \in { "check", "sleep", "disconnected" } ]_vars
  /\ [] ( ws.pc \in { "poll", "send_idle", "get_progress", "send", "check", "sleep",
                      "disconnected" } )
  /\ \A j \in JobIds :
       ( registry[WsSlug] = j /\ ws.pc # "disconnected" )
         ~> ( \/ ws.pc = "disconnected" \/ registry[WsSlug] # j
              \/ ( ws.msg.type = "progress" /\ ws.msg.job_id = j ) )

C20_Witness ==
  /\ njobs = 2 /\ registry[WsSlug] = 2
  /\ job[1].status \in TerminalStatuses
  /\ ws.msg.type = "progress" /\ ws.msg.job_id = 2
  /\ ws.msg.status = job[2].status

\* C21: for every parameter of every configuration category, the effective
\* value is the documented default (the default of the device where there is
\* one) when the parameter is not overridden, and is the override X for every
\* valid override X, the falsy ones (0, False, an empty list, an empty string)
\* included.
DocumentedDefault(p, is_cuda) ==
  CASE p = "num_train_epochs" -> training_defaults.DEFAULT_EPOCHS
    [] p = "per_device_train_batch_size" ->
         IF is_cuda THEN training_defaults.DEFAULT_BATCH_SIZE_CUDA ELSE training_defaults.DEFAULT_BATCH_SIZE_CPU
    [] p = "gradient_accumulation_steps" -> training_defaults.DEFAULT_GRADIENT_ACCUMULATION
    [] p = "learning_rate" ->
         IF is_cuda THEN training_defaults.DEFAULT_LEARNING_RATE_CUDA ELSE training_defaults.DEFAULT_LEARNING_RATE_CPU
    [] p = "warmup_ratio" ->
         IF is_cuda THEN training_defaults.DEFAULT_WARMUP_RATIO_CUDA ELSE training_defaults.DEFAULT_WARMUP_RATIO_CPU
    [] p = "max_length" -> training_defaults.DEFAULT_MAX_LENGTH
    [] p = "fp16" -> PyBool(is_cuda)
    [] p = "optim" -> IF is_cuda THEN training_defaults.DEFAULT_OPTIM_CUDA ELSE training_defaults.DEFAULT_OPTIM_CPU
    [] p = "weight_decay" -> training_defaults.DEFAULT_WEIGHT_DECAY
    [] p = "max_grad_norm" -> training_defaults.DEFAULT_MAX_GRAD_NORM
    [] p = "lr_scheduler_type" -> training_defaults.DEFAULT_LR_SCHEDULER_TYPE
    [] p = "neftune_noise_alpha" -> training_defaults.DEFAULT_NEFTUNE_NOISE_ALPHA
    [] p = "seed" -> training_defaults.DEFAULT_SEED
    [] p = "bf16" -> "False"
    [] p = "logging_steps" ->
         IF is_cuda THEN training_defaults.DEFAULT_LOGGING_STEPS_CUDA ELSE training_defaults.DEFAULT_LOGGING_STEPS_CPU
    [] p = "save_strategy" -> training_defaults.DEFAULT_SAVE_STRATEGY
    [] p = "r" -> training_defaults.DEFAULT_LORA_R
    [] p = "lora_alpha" -> training_defaults.DEFAULT_LORA_ALPHA
    [] p = "lora_dropout" -> training_defaults.DEFAULT_LORA_DROPOUT
    [] p = "target_modules" -> training_defaults.DEFAULT_LORA_TARGET_MODULES
    [] p = "bias" -> training_defaults.DEFAULT_LORA_BIAS
    [] p = "use_rslora" -> training_defaults.DEFAULT_USE_RSLORA
    [] p = "use_dora" -> training_defaults.DEFAULT_USE_DORA
    [] p = "modules_to_save" -> None
    [] p = "load_in_4bit" -> training_defaults.DEFAULT_LOAD_IN_4BIT
    [] p = "bnb_4bit_quant_type" -> training_defaults.DEFAULT_BNB_4BIT_QUANT_TYPE
    [] p = "bnb_4bit_use_double_quant" -> training_defaults.DEFAULT_BNB_4BIT_USE_DOUBLE_QUANT
    [] p = "bnb_4bit_compute_dtype" -> training_defaults.DEFAULT_BNB_4BIT_COMPUTE_DTYPE
    [] p = "output_quantization" -> training_defaults.DEFAULT_OUTPUT_QUANTIZATION
    [] p = "temperature" -> training_defaults.DEFAULT_TEMPERATURE
    [] p = "top_p" -> training_defaults.DEFAULT_TOP_P
    [] p = "top_k" -> training_defaults.DEFAULT_TOP_K
    [] p = "stop" -> training_defaults.DEFAULT_STOP
    [] p = "system" -> training_defaults.DEFAULT_SYSTEM
    [] p = "repeat_penalty" -> training_defaults.DEFAULT_REPEAT_PENALTY
    [] p = "repeat_last_n" -> training_defaults.DEFAULT_REPEAT_LAST_N
    [] OTHER -> training_defaults.DEFAULT_NUM_CTX

Override(config, p) == IF config.present THEN config.fields[p] ELSE None

C21_EffectiveIsOverrideElseDefault ==
  eff.pc = "returned" =>
    /\ DOMAIN eff.result = ConfigFields(eff.category)
    /\ \A p \in ConfigFields(eff.category) :
         eff.result[p] = IF Override(eff.config, p) = None
                           THEN DocumentedDefault(p, eff.is_cuda)
                           ELSE Override(eff.config, p)

\* C22: in every state a job whose status is failed or cancelled has an error
\* code, and a cancelled job has the error code TRAINING_CANCELLED.
C22_TerminalFailureHasErrorCode ==
  \A j \in Created :
    /\ job[j].status \in { "failed", "cancelled" } => job[j].error_code # None
    /\ job[j].status = "cancelled" => job[j].error_code = TRAINING_CANCELLED

\* C23: after the work of every one of the nine stages returns, the worker
\* tests the cancellation flag before it marks the stage completed, and when
\* the flag is set at that test it handles the cancellation (the stage is not
\* marked completed and the job ends cancelled).
C23_CancelCheckedAfterEveryStage ==
  /\ [][ \A j \in Created :
           ( /\ job[j].pc \in { "work", "tok_map", "train_after" }
             /\ job'[j].pc \in { "check", "complete" } ) => job'[j].pc = "check" ]_vars
  /\ [][ \A j \in Created :
           ( job[j].pc = "check" /\ job[j].cancel_requested /\ job'[j].pc # "check" )
             => job'[j].pc = "cancel_tasks" ]_vars

\* C24: while a stage is in_progress in a job that is not terminal, the job's
\* status is the phase of the stage: loading_data for detect_device,
\* import_libraries and tokenize, loading_model for load_model and setup_lora,
\* training for train, exporting for merge_lora, converting for convert_gguf;
\* create_modelfile runs under the status convert_gguf left.
PhaseOfStage(i) ==
  CASE i \in { 1, 2, 5 } -> "loading_data"
    [] i \in { 3, 4 } -> "loading_model"
    [] i = 6 -> "training"
    [] i = 7 -> "exporting"
    [] OTHER -> "converting"

C24_StatusIsPhaseOfStage ==
  \A j \in Created : \A i \in 1 .. NumTasks :
    ( job[j].tasks[i] = "in_progress" /\ job[j].status \notin TerminalStatuses )
      => job[j].status = PhaseOfStage(i)

\* C25: when the ingestion of a job has ended, the error_count of stage
\* tokenize is the sum of rows_skipped over the job's files (a file found
\* absent is failed with no rows and adds nothing to error_count).
RECURSIVE SumRowsSkipped(_)
SumRowsSkipped(statuses) ==
  IF statuses = << >> THEN 0
  ELSE Head(statuses).rows_skipped + SumRowsSkipped(Tail(statuses))

C25_ErrorCountIsSkippedRows ==
  \A j \in Created :
    ( job[j].pc = "tok_map" \/ job[j].tasks[5] = "completed" )
      => job[j].error_count[5] = SumRowsSkipped(get_file_statuses_list(job[j]))

\* C26: once a job's status is completed, failed or cancelled, no step (of
\* its worker, of a request handler or of the websocket handler) changes its
\* status, its error code, the status of a stage or a file status.
C26_TerminalIsAbsorbing ==
  [][ \A j \in Created :
        job[j].status \in TerminalStatuses =>
          /\ job'[j].status = job[j].status
          /\ job'[j].error_code = job[j].error_code
          /\ job'[j].tasks = job[j].tasks
          /\ job'[j].file_statuses = job[j].file_statuses ]_vars

\* C27: a job whose status is completed, failed or cancelled has no stage
\* in_progress, and a failed job has exactly one failed stage (also when the
\* exception is one that no handler of a stage catches).
C27_TerminalHasNoStageInProgress ==
  \A j \in Created :
    /\ job[j].status \in TerminalStatuses
         => \A i \in 1 .. NumTasks : job[j].tasks[i] # "in_progress"
    /\ job[j].status = "failed"
         => Cardinality({ i \in 1 .. NumTasks : job[j].tasks[i] = "failed" }) = 1

\* C28: the worker of every admitted job eventually exits with the job
\* completed, failed or cancelled (every opaque call returns or raises), and a
\* worker that has exited has left its job in one of these statuses.
C28_WorkerReachesTerminalAndExits ==
  /\ \A j \in JobIds :
       ( job[j].pc # "none" )
         ~> ( job[j].pc = "exited" /\ job[j].status \in TerminalStatuses )
  /\ [] ( \A j \in Created : job[j].pc = "exited" => job[j].status \in TerminalStatuses )

C28_Witness ==
  \E j \in Created :
    /\ job[j].pc = "exited" /\ job[j].status = "failed"
    /\ job[j].tasks[8] = "failed" /\ job[j].tasks[9] = "pending"

\* C29: the cancel handler answers 200 {"cancelled": true} only when
\* cancel_training returned True, that is when the cancellation flag was set
\* on a running job.
C29_CancelledOnlyWhenFlagSet ==
  ( req.op = "cancel" /\ req.pc = "done" /\ req.code = 200 )
    => ( req.ret = "True" /\ job[req.job].cancel_requested )

\* C30: the can_start of a status or progress message the observer is sent
\* is the can_start the status query answers for a job of the status in the
\* message (for no job when the message names none): true exactly when that
\* status is not a running one.
C30_PushCanStartEqualsQuery ==
  /\ ws.msg.type \in { "status", "progress" }
       => ws.msg.can_start = StatusCanStart(ws.msg.job_id # 0, ws.msg.status)
  /\ \A p \in Projects :
       get_training_status(p).can_start =
         StatusCanStart(get_job(p) # 0, get_training_status(p).status)

====
